---- MODULE Spec2Model ----
(***************************************************************************)
(* GitUtil (demisto_sdk/commands/common/git_util.py): classification of    *)
(* the files of a checkout as modified / added / deleted / renamed against *)
(* a remote branch, from three collaborator answers: the diff of the       *)
(* remote ref against the active branch, the diff of HEAD against the      *)
(* index, and the lines of `git status --short -u`; plus the name-only     *)
(* three-dot diff that says which paths this branch touched.               *)
(***************************************************************************)
EXTENDS Naturals, Sequences, FiniteSets

\* ------------------------------------------------------------- strings
\* A ref name is a sequence of characters, so that str.replace and
\* str.startswith are computed, not assumed.
ORIGIN == <<"o", "r", "i", "g", "i", "n", "/">>
MASTER == <<"m", "a", "s", "t", "e", "r">>
DEV == <<"d", "e", "v">>

\* The remote ("origin") has these branches; the bare name is the key of
\* repo.remote().refs, and origin/<name> is the revision git resolves.
RemoteBranches == {MASTER}

\* The prev_ver arguments callers pass: the default, and its spellings.
DefaultPrevVer == {MASTER}
PrevVers == {MASTER, ORIGIN \o MASTER, ORIGIN \o ORIGIN \o MASTER, DEV}

\* The files of the checkout, in the order git lists them.
PathOrder == <<"a.txt", "x b.txt", "y b.txt">>
Paths == {PathOrder[i] : i \in 1..Len(PathOrder)}
ARROW == "->"

\* A path as git status --short prints it, split on white space: a name
\* with a space in it is printed between double quotes.
status_words(p) ==
    CASE p = "x b.txt" -> <<"\"x", "b.txt\"">>
      [] p = "y b.txt" -> <<"\"y", "b.txt\"">>
      [] OTHER -> <<p>>

\* What a tree holds at a path: nothing, or a blob. "v1e" is an edit of
\* "v1": git's rename detection finds the two similar.
ABSENT == "absent"
Blobs == {"v1", "v1e", "v2"}
Trees == [Paths -> Blobs \cup {ABSENT}]
similar(x, y) == x = y \/ {x, y} = {"v1", "v1e"}

\* The checkouts a GitUtil is constructed on: nothing changed yet.
InitialTrees ==
    {t \in Trees : /\ t["x b.txt"] = "v1"
                   /\ t["a.txt"] \in {ABSENT, "v2"}
                   /\ t["y b.txt"] = ABSENT}

\* Bound: the number of changes (commits, stagings, edits) made to the
\* repository since the branch left the remote branch.
MaxChanges == 3
\* Bound: the same, where the calls are made with every spelling of the
\* reference.
MaxRefChanges == 2

VARIABLES
    base,      \* the tree of the merge base of origin/master and the active branch
    ref,       \* the tree of repo.remote().refs['master'].commit
    head,      \* the tree of repo.head.commit (the tip of repo.active_branch)
    index,     \* the index
    work,      \* the working tree
    changes,   \* how many changes the repository has seen
    committed_diff,  \* repo.remote().refs['master'].commit.diff(repo.active_branch)
    index_diff,      \* repo.head.commit.diff()
    name_only,       \* the paths of repo.git.diff('--name-only', 'origin/master...<branch>')
    git_status,      \* repo.git.status('--short', '-u').split('\n')
    call,      \* the call in progress on the GitUtil object, or NoCall
    result     \* what that call returns or raises

repo == <<base, ref, head, index, work, changes,
          committed_diff, index_diff, name_only, git_status>>
vars == <<repo, call, result>>

NoCall == [op |-> "none", prev_ver |-> <<>>, committed_only |-> FALSE, staged_only |-> FALSE]
NoResult == [raised |-> FALSE, value |-> {}]

\* ------------------------------------------------- the git collaborator
\* git diff -M of two trees, as GitPython's Diff objects: a file gone from
\* one path and come at another with a similar blob is one rename.
path_index(p) == CHOOSE i \in 1..Len(PathOrder) : PathOrder[i] = p

tree_diff(old, new) ==
    LET gone == {p \in Paths : old[p] # ABSENT /\ new[p] = ABSENT}
        come == {p \in Paths : old[p] = ABSENT /\ new[p] # ABSENT}
        candidates == {xy \in gone \X come : similar(old[xy[1]], new[xy[2]])}
        exact(xy) == old[xy[1]] = new[xy[2]]
        place(xy) == Len(PathOrder) * path_index(xy[1]) + path_index(xy[2])
        \* git pairs exact copies first, then the similar ones, each path once
        beats(xy, zw) == \/ exact(xy) /\ ~exact(zw)
                         \/ exact(xy) = exact(zw) /\ place(xy) < place(zw)
        renames == {xy \in candidates :
                       \A zw \in candidates \ {xy} :
                           (zw[1] = xy[1] \/ zw[2] = xy[2]) => beats(xy, zw)}
    IN  {[change_type |-> "R", a_path |-> xy[1], b_path |-> xy[2],
          a_blob |-> old[xy[1]], b_blob |-> new[xy[2]]] : xy \in renames}
        \cup {[change_type |-> "D", a_path |-> p, b_path |-> p,
               a_blob |-> old[p], b_blob |-> ABSENT] :
                  p \in gone \ {xy[1] : xy \in renames}}
        \cup {[change_type |-> "A", a_path |-> p, b_path |-> p,
               a_blob |-> ABSENT, b_blob |-> new[p]] :
                  p \in come \ {xy[2] : xy \in renames}}
        \cup {[change_type |-> "M", a_path |-> p, b_path |-> p,
               a_blob |-> old[p], b_blob |-> new[p]] :
                  p \in {q \in Paths : old[q] # ABSENT /\ new[q] # ABSENT /\ old[q] # new[q]}}

\* The second status letter of a tracked path: working tree against index.
worktree_letter(idx, wt, p) ==
    IF idx[p] = ABSENT \/ idx[p] = wt[p] THEN <<>>
    ELSE IF wt[p] = ABSENT THEN <<"D">> ELSE <<"M">>

\* The lines of git status --short -u about path p, each split on white
\* space, the status code a sequence of characters.
tracked_lines(hd, idx, wt, p) ==
    LET staged == {d \in tree_diff(hd, idx) : d.b_path = p}
        letter == worktree_letter(idx, wt, p)
    IN  IF staged # {}
        THEN LET d == CHOOSE x \in staged : TRUE
                 code == <<d.change_type>> \o letter
             IN  IF d.change_type = "R"
                 THEN << <<code>> \o status_words(d.a_path) \o <<ARROW>> \o status_words(p) >>
                 ELSE << <<code>> \o status_words(p) >>
        ELSE IF letter # <<>> THEN << <<letter>> \o status_words(p) >>
        ELSE <<>>

untracked_lines(idx, wt, p) ==
    IF idx[p] = ABSENT /\ wt[p] # ABSENT THEN << <<(<<"?", "?">>)>> \o status_words(p) >>
    ELSE <<>>

\* The lines about the paths from the i-th on: the tracked entries when
\* tracked holds, the untracked files otherwise.
RECURSIVE status_lines(_, _, _, _, _)
status_lines(hd, idx, wt, tracked, i) ==
    IF i > Len(PathOrder) THEN <<>>
    ELSE (IF tracked THEN tracked_lines(hd, idx, wt, PathOrder[i])
          ELSE untracked_lines(idx, wt, PathOrder[i]))
         \o status_lines(hd, idx, wt, tracked, i + 1)

\* The lines of git status --short -u: the tracked paths, then the
\* untracked files. No line at all stands for the [''] of an empty output.
status_output(hd, idx, wt) ==
    status_lines(hd, idx, wt, TRUE, 1) \o status_lines(hd, idx, wt, FALSE, 1)

\* What the collaborator answers on a repository with these trees.
Answers(b, r, hd, idx, wt) ==
    /\ committed_diff' = tree_diff(r, hd)
    /\ index_diff' = tree_diff(hd, idx)
    /\ name_only' = {d.b_path : d \in tree_diff(b, hd)}
    /\ git_status' = status_output(hd, idx, wt)

\* str.startswith(prefix)
startswith(s, prefix) ==
    /\ Len(s) >= Len(prefix)
    /\ SubSeq(s, 1, Len(prefix)) = prefix

\* str.replace(old, ''): every non-overlapping occurrence of old, scanning
\* from the left, is removed.
RECURSIVE str_replace(_, _)
str_replace(s, old) ==
    IF Len(s) < Len(old) THEN s
    ELSE IF SubSeq(s, 1, Len(old)) = old
         THEN str_replace(SubSeq(s, Len(old) + 1, Len(s)), old)
         ELSE <<Head(s)>> \o str_replace(Tail(s), old)

\* A variant that strips one leading origin/ only.
normalize_prev_ver_leading_only(prev_ver) ==
    IF startswith(prev_ver, ORIGIN)
    THEN SubSeq(prev_ver, Len(ORIGIN) + 1, Len(prev_ver))
    ELSE prev_ver

\* prev_ver = prev_ver.replace('origin/', '')
normalize_prev_ver(prev_ver) == str_replace(prev_ver, ORIGIN)

\* GitPython's DiffIndex.iter_change_type(change_type): 'M' also yields a
\* rename whose blob changed.
iter_change_type(diff, change_type) ==
    {d \in diff :
        \/ d.change_type = change_type
        \/ /\ change_type = "M"
           /\ d.a_blob # ABSENT /\ d.b_blob # ABSENT /\ d.a_blob # d.b_blob}

\* self.repo.remote().refs[prev_ver]: IndexError unless the remote has it.
remote_ref_exists(prev_ver) == prev_ver \in RemoteBranches

\* self.repo.remote().refs[prev_ver].commit.diff(self.repo.active_branch)
remote_ref_diff(prev_ver) == IF prev_ver \in RemoteBranches THEN committed_diff ELSE {}

\* origin_prev_ver = prev_ver if prev_ver.startswith('origin/') else f"origin/{prev_ver}"
origin_prev_ver(prev_ver) ==
    IF startswith(prev_ver, ORIGIN) THEN prev_ver ELSE ORIGIN \o prev_ver

\* git resolves the revision origin/<b> for a branch b of the remote.
revision_resolves(rev) == \E b \in RemoteBranches : rev = ORIGIN \o b

\* The output of git diff --name-only, split on '\n': an empty output
\* splits into [''] and Path('') is '.'.
_get_all_changed_files(prev_ver) ==
    IF ~revision_resolves(origin_prev_ver(prev_ver)) THEN {}
    ELSE IF name_only = {} THEN {"."} ELSE name_only

\* str.upper() of a status code
upper(code) ==
    [i \in 1..Len(code) |->
        CASE code[i] = "m" -> "M" [] code[i] = "a" -> "A" [] code[i] = "d" -> "D"
          [] code[i] = "r" -> "R" [] OTHER -> code[i]]

\* file_status = line.split()[0].upper() if not line.startswith('?') else 'A'
file_status(line) == IF line[1][1] = "?" THEN <<"A">> ELSE upper(line[1])

_get_untracked_files(requested_status) ==
    IF git_status = <<>> THEN {}
    ELSE LET matching == {i \in 1..Len(git_status) :
                              file_status(git_status[i]) = <<requested_status>>}
         IN  IF requested_status = "R"
             THEN {<<git_status[i][Len(git_status[i]) - 1],
                     git_status[i][Len(git_status[i])]>> : i \in matching}
             ELSE {git_status[i][Len(git_status[i])] : i \in matching}

a_paths(diff) == {d.a_path : d \in diff}
path_pairs(diff) == {<<d.a_path, d.b_path>> : d \in diff}

\* A variant whose last return forgets the committed deletions.
deleted_files_forgets_committed(prev_ver0, committed_only, staged_only) ==
    LET prev_ver == normalize_prev_ver(prev_ver0)
        committed == a_paths(iter_change_type(remote_ref_diff(prev_ver), "D"))
                        \cap _get_all_changed_files(prev_ver)
        untracked == _get_untracked_files("D")
        staged == a_paths(iter_change_type(index_diff, "D")) \cup untracked
    IN  IF committed_only THEN committed
        ELSE staged

deleted_files(prev_ver0, committed_only, staged_only) ==
    LET prev_ver == normalize_prev_ver(prev_ver0)
        committed == a_paths(iter_change_type(remote_ref_diff(prev_ver), "D"))
                        \cap _get_all_changed_files(prev_ver)
        untracked == _get_untracked_files("D")
        staged == a_paths(iter_change_type(index_diff, "D")) \cup untracked
    IN  IF committed_only THEN committed
        ELSE IF staged_only THEN staged
        ELSE staged \cup committed

\* A variant that keeps a committed rename whose target is deleted.
renamed_files_keeps_deleted(prev_ver0, committed_only, staged_only) ==
    LET prev_ver == normalize_prev_ver(prev_ver0)
        all_branch_changed_files == _get_all_changed_files(prev_ver)
        committed == {t \in path_pairs(iter_change_type(remote_ref_diff(prev_ver), "R")) :
                          t[2] \in all_branch_changed_files}
        untracked == _get_untracked_files("R")
        staged == path_pairs(iter_change_type(index_diff, "R")) \cup untracked
    IN  IF committed_only THEN committed
        ELSE IF staged_only THEN staged
        ELSE staged \cup committed

renamed_files(prev_ver0, committed_only, staged_only) ==
    LET prev_ver == normalize_prev_ver(prev_ver0)
        deleted == deleted_files(prev_ver, committed_only, staged_only)
        all_branch_changed_files == _get_all_changed_files(prev_ver)
        committed == {t \in path_pairs(iter_change_type(remote_ref_diff(prev_ver), "R")) :
                          t[2] \in all_branch_changed_files /\ t[2] \notin deleted}
        untracked == _get_untracked_files("R")
        staged == path_pairs(iter_change_type(index_diff, "R")) \cup untracked
    IN  IF committed_only THEN committed
        ELSE IF staged_only THEN staged
        ELSE staged \cup committed

\* A variant that never takes the deleted files out.
modified_files_keeps_deleted(prev_ver0, committed_only, staged_only) ==
    LET prev_ver == normalize_prev_ver(prev_ver0)
        renamed == {item[1] : item \in renamed_files(prev_ver, committed_only, staged_only)}
        committed == a_paths(iter_change_type(remote_ref_diff(prev_ver), "M"))
                        \cap _get_all_changed_files(prev_ver)
        untracked == _get_untracked_files("M")
        committed_added == a_paths(iter_change_type(remote_ref_diff(prev_ver), "A"))
        staged == (a_paths(iter_change_type(index_diff, "M")) \cup untracked)
                        \ committed_added
    IN  IF committed_only THEN committed \ renamed
        ELSE IF staged_only THEN staged \ renamed
        ELSE (staged \cup committed) \ renamed

\* A variant that takes out the new path of each rename, not the old one.
modified_files_drops_targets(prev_ver0, committed_only, staged_only) ==
    LET prev_ver == normalize_prev_ver(prev_ver0)
        renamed == {item[2] : item \in renamed_files(prev_ver, committed_only, staged_only)}
        deleted == deleted_files(prev_ver, committed_only, staged_only)
        committed == a_paths(iter_change_type(remote_ref_diff(prev_ver), "M"))
                        \cap _get_all_changed_files(prev_ver)
        untracked == _get_untracked_files("M")
        committed_added == a_paths(iter_change_type(remote_ref_diff(prev_ver), "A"))
        staged == (a_paths(iter_change_type(index_diff, "M")) \cup untracked)
                        \ committed_added
    IN  IF committed_only THEN (committed \ renamed) \ deleted
        ELSE IF staged_only THEN (staged \ renamed) \ deleted
        ELSE ((staged \cup committed) \ renamed) \ deleted

modified_files(prev_ver0, committed_only, staged_only) ==
    LET prev_ver == normalize_prev_ver(prev_ver0)
        renamed == {item[1] : item \in renamed_files(prev_ver, committed_only, staged_only)}
        deleted == deleted_files(prev_ver, committed_only, staged_only)
        committed == a_paths(iter_change_type(remote_ref_diff(prev_ver), "M"))
                        \cap _get_all_changed_files(prev_ver)
        untracked == _get_untracked_files("M")
        committed_added == a_paths(iter_change_type(remote_ref_diff(prev_ver), "A"))
        staged == (a_paths(iter_change_type(index_diff, "M")) \cup untracked)
                        \ committed_added
    IN  IF committed_only THEN (committed \ renamed) \ deleted
        ELSE IF staged_only THEN (staged \ renamed) \ deleted
        ELSE ((staged \cup committed) \ renamed) \ deleted

\* A variant without the branch-relevance filter.
added_files_unfiltered(prev_ver0, committed_only, staged_only) ==
    LET prev_ver == normalize_prev_ver(prev_ver0)
        deleted == deleted_files(prev_ver, committed_only, staged_only)
        committed == a_paths(iter_change_type(remote_ref_diff(prev_ver), "A"))
        untracked == _get_untracked_files("A")
        committed_added_locally_modified ==
            a_paths(iter_change_type(index_diff, "M")) \cap committed
        staged == (a_paths(iter_change_type(index_diff, "A")) \cup untracked)
                        \cup committed_added_locally_modified
    IN  IF committed_only THEN committed \ deleted
        ELSE IF staged_only THEN staged \ deleted
        ELSE (staged \cup committed) \ deleted

\* A variant that tests staged_only before committed_only.
added_files_staged_first(prev_ver0, committed_only, staged_only) ==
    LET prev_ver == normalize_prev_ver(prev_ver0)
        deleted == deleted_files(prev_ver, committed_only, staged_only)
        committed == a_paths(iter_change_type(remote_ref_diff(prev_ver), "A"))
                        \cap _get_all_changed_files(prev_ver)
        untracked == _get_untracked_files("A")
        committed_added_locally_modified ==
            a_paths(iter_change_type(index_diff, "M")) \cap committed
        staged == (a_paths(iter_change_type(index_diff, "A")) \cup untracked)
                        \cup committed_added_locally_modified
    IN  IF staged_only THEN staged \ deleted
        ELSE IF committed_only THEN committed \ deleted
        ELSE (staged \cup committed) \ deleted

added_files(prev_ver0, committed_only, staged_only) ==
    LET prev_ver == normalize_prev_ver(prev_ver0)
        deleted == deleted_files(prev_ver, committed_only, staged_only)
        committed == a_paths(iter_change_type(remote_ref_diff(prev_ver), "A"))
                        \cap _get_all_changed_files(prev_ver)
        untracked == _get_untracked_files("A")
        committed_added_locally_modified ==
            a_paths(iter_change_type(index_diff, "M")) \cap committed
        staged == (a_paths(iter_change_type(index_diff, "A")) \cup untracked)
                        \cup committed_added_locally_modified
    IN  IF committed_only THEN committed \ deleted
        ELSE IF staged_only THEN staged \ deleted
        ELSE (staged \cup committed) \ deleted

\* Every operation first looks the ref up and then asks for the name-only
\* diff; either raises when the name does not resolve.
raises(prev_ver0) ==
    LET prev_ver == normalize_prev_ver(prev_ver0)
    IN  \/ ~remote_ref_exists(prev_ver)
        \/ ~revision_resolves(origin_prev_ver(prev_ver))

Operations == {"modified_files", "added_files", "deleted_files", "renamed_files"}

returns(op, prev_ver, committed_only, staged_only) ==
    CASE op = "modified_files" -> modified_files(prev_ver, committed_only, staged_only)
      [] op = "added_files" -> added_files(prev_ver, committed_only, staged_only)
      [] op = "deleted_files" -> deleted_files(prev_ver, committed_only, staged_only)
      [] op = "renamed_files" -> renamed_files(prev_ver, committed_only, staged_only)

outcome(op, prev_ver, committed_only, staged_only) ==
    IF raises(prev_ver) THEN [raised |-> TRUE, value |-> {}]
    ELSE [raised |-> FALSE, value |-> returns(op, prev_ver, committed_only, staged_only)]

\* ------------------------------------------------------------- actions
\* GitUtil(repo) on a checkout of the remote branch, nothing changed.
Init ==
    /\ base \in InitialTrees
    /\ ref = base /\ head = base /\ index = base /\ work = base
    /\ changes = 0
    /\ committed_diff = {} /\ index_diff = {} /\ name_only = {} /\ git_status = <<>>
    /\ call = NoCall
    /\ result = NoResult

Forget == call' = NoCall /\ result' = NoResult

Change(bound) ==
    /\ call = NoCall
    /\ changes < bound
    /\ changes' = changes + 1
    /\ Forget

\* The remote branch moves on after the branch left it.
MasterCommit(bound) ==
    /\ Change(bound)
    /\ \E p \in Paths, v \in Blobs \cup {ABSENT} :
          /\ v # ref[p]
          /\ ref' = [ref EXCEPT ![p] = v]
    /\ UNCHANGED <<base, head, index, work>>
    /\ Answers(base, ref', head, index, work)

\* A file is written (or removed), staged and committed on the branch.
BranchCommit(bound) ==
    /\ Change(bound)
    /\ \E p \in Paths, v \in Blobs \cup {ABSENT} :
          /\ v # head[p]
          /\ head' = [head EXCEPT ![p] = v]
          /\ index' = [index EXCEPT ![p] = v]
          /\ work' = [work EXCEPT ![p] = v]
    /\ UNCHANGED <<base, ref>>
    /\ Answers(base, ref, head', index', work')

\* A file is written (or removed) and staged: git add, git rm.
Stage(bound) ==
    /\ Change(bound)
    /\ \E p \in Paths, v \in Blobs \cup {ABSENT} :
          /\ v # index[p]
          /\ index' = [index EXCEPT ![p] = v]
          /\ work' = [work EXCEPT ![p] = v]
    /\ UNCHANGED <<base, ref, head>>
    /\ Answers(base, ref, head, index', work')

\* A file of the working tree is written, created or removed.
Edit(bound) ==
    /\ Change(bound)
    /\ \E p \in Paths, v \in Blobs \cup {ABSENT} :
          /\ v # work[p]
          /\ work' = [work EXCEPT ![p] = v]
    /\ UNCHANGED <<base, ref, head, index>>
    /\ Answers(base, ref, head, index, work')

\* A call is synchronous: it reads the repository as it is and returns.
Call(op, prev_vers) ==
    /\ call = NoCall
    /\ \E prev_ver \in prev_vers, committed_only \in BOOLEAN, staged_only \in BOOLEAN :
        /\ call' = [op |-> op, prev_ver |-> prev_ver,
                    committed_only |-> committed_only, staged_only |-> staged_only]
        /\ result' = outcome(op, prev_ver, committed_only, staged_only)
    /\ UNCHANGED repo

\* The caller takes the returned set (or the exception); nothing is kept.
Return ==
    /\ call # NoCall
    /\ Forget
    /\ UNCHANGED repo

ModifiedFiles(prev_vers) == Call("modified_files", prev_vers)
AddedFiles(prev_vers) == Call("added_files", prev_vers)
DeletedFiles(prev_vers) == Call("deleted_files", prev_vers)
RenamedFiles(prev_vers) == Call("renamed_files", prev_vers)

\* The operations called with the default reference.
Next ==
    \/ MasterCommit(MaxChanges)
    \/ BranchCommit(MaxChanges)
    \/ Stage(MaxChanges)
    \/ Edit(MaxChanges)
    \/ ModifiedFiles(DefaultPrevVer)
    \/ AddedFiles(DefaultPrevVer)
    \/ DeletedFiles(DefaultPrevVer)
    \/ RenamedFiles(DefaultPrevVer)
    \/ Return

Spec == Init /\ [][Next]_vars

\* The operations called with every spelling of the reference.
NextRef ==
    \/ MasterCommit(MaxRefChanges)
    \/ BranchCommit(MaxRefChanges)
    \/ Stage(MaxRefChanges)
    \/ Edit(MaxRefChanges)
    \/ ModifiedFiles(PrevVers)
    \/ AddedFiles(PrevVers)
    \/ DeletedFiles(PrevVers)
    \/ RenamedFiles(PrevVers)
    \/ Return

SpecRef == Init /\ [][NextRef]_vars

TypeOK ==
    /\ base \in Trees /\ ref \in Trees /\ head \in Trees
    /\ index \in Trees /\ work \in Trees
    /\ changes \in Nat
    /\ call.op \in Operations \cup {"none"}
    /\ result.raised \in BOOLEAN

\* ------------------------------------------------------------- properties
\* The call in progress is op and it returned a set.
Returned(op) == call.op = op /\ ~result.raised
ReturnedAny == call.op \in Operations /\ ~result.raised
Unrestricted == ~call.committed_only /\ ~call.staged_only

\* What another operation returns on the same repository, reference and flags.
same(op) == returns(op, call.prev_ver, call.committed_only, call.staged_only)
\* What the operation in progress returns with other flags.
with_flags(committed_only, staged_only) ==
    returns(call.op, call.prev_ver, committed_only, staged_only)

sources(pairs) == {pr[1] : pr \in pairs}
targets(pairs) == {pr[2] : pr \in pairs}

committed_paths(change_type) == a_paths(iter_change_type(committed_diff, change_type))
index_paths(change_type) == a_paths(iter_change_type(index_diff, change_type))
\* The pairs renamed_files takes from the index diff and the status lines.
staged_pairs == path_pairs(iter_change_type(index_diff, "R")) \cup _get_untracked_files("R")

C2_RenamedTargetsExcluded ==
    Returned("renamed_files") =>
        \A t \in targets(result.value) :
            /\ t \notin same("added_files")
            /\ t \notin same("modified_files")
            /\ t \notin same("deleted_files")

\* C3: a path Added in the committed diff and Modified in the index diff is
\* returned by added_files and not by modified_files, with staged_only and
\* with both flags False.
C3_AddedThenEditedIsAdded ==
    \A p \in committed_paths("A") \cap index_paths("M") :
        /\ (Returned("added_files") /\ ~call.committed_only) => p \in result.value
        /\ (Returned("modified_files") /\ ~call.committed_only) => p \notin result.value

\* C4: no path is in both the added_files and the modified_files result for
\* the same reference and flags.
C4_AddedModifiedDisjoint ==
    Returned("added_files") => result.value \cap same("modified_files") = {}

\* C5: every path deleted_files returns is absent from the modified_files
\* and the added_files results for the same reference and flags.
C5_DeletedExcluded ==
    Returned("deleted_files") =>
        /\ result.value \cap same("modified_files") = {}
        /\ result.value \cap same("added_files") = {}

\* deleted_files returned a path that the committed diff reports modified
\* and another that the index diff reports added: both were to be dropped.
C5_Witness ==
    /\ Returned("deleted_files")
    /\ result.value \cap committed_paths("M") \cap name_only # {}
    /\ result.value \cap (index_paths("A") \cup _get_untracked_files("A")) # {}

\* C6 (as claimed): no path deleted_files returns is the target of a pair
\* renamed_files returns for the same reference and flags, pairs from the
\* index diff and from the status lines included.
C6_DeletedNeverRenameTarget ==
    Returned("deleted_files") =>
        result.value \cap targets(same("renamed_files")) = {}

\* C6 (amended): a pair renamed_files returns whose target deleted_files
\* returns is one the index diff or a status line reports, returned without
\* committed_only; a pair that only the committed diff reports never has a
\* deleted target.
C6_OnlyStagedPairsKeepDeletedTarget ==
    Returned("deleted_files") =>
        \A pr \in same("renamed_files") :
            pr[2] \in result.value => (~call.committed_only /\ pr \in staged_pairs)

\* deleted_files returned the target of a rename that the committed diff
\* reports and that this branch touched.
C6_Witness ==
    /\ Returned("deleted_files")
    /\ \E d \in iter_change_type(committed_diff, "R") :
          d.b_path \in result.value /\ d.b_path \in name_only

\* C7: with committed_only, every path of the result (the target, for
\* renamed_files) is in _get_all_changed_files.
C7_CommittedOnlyWithinBranchChanges ==
    (ReturnedAny /\ call.committed_only) =>
        LET found == IF call.op = "renamed_files" THEN targets(result.value)
                     ELSE result.value
        IN  found \subseteq _get_all_changed_files(normalize_prev_ver(call.prev_ver))

\* added_files with committed_only returned a path, and left out another
\* that the committed diff reports added but the branch never touched.
C7_Witness ==
    /\ Returned("added_files") /\ call.committed_only
    /\ result.value # {}
    /\ committed_paths("A") \ name_only # {}

C9_RenamedSourcesNotModified ==
    Returned("modified_files") =>
        result.value \cap sources(same("renamed_files")) = {}

\* modified_files left out the old path of a rename whose content changed,
\* which the index diff reports as modified too.
C9_Witness ==
    /\ Returned("modified_files") /\ ~call.committed_only
    /\ sources(same("renamed_files")) \cap index_paths("M") # {}

\* C10: with both flags True each operation returns what it returns with
\* committed_only alone, whatever the index diff and the status lines hold.
C10_BothFlagsIsCommittedOnly ==
    (ReturnedAny /\ call.committed_only /\ call.staged_only) =>
        /\ result.value = with_flags(TRUE, FALSE)
        /\ IF call.op = "renamed_files"
           THEN result.value \subseteq path_pairs(committed_diff)
           ELSE result.value \subseteq a_paths(committed_diff)

\* A call with both flags True returned a set that is not the staged_only one.
C10_Witness ==
    /\ ReturnedAny /\ call.committed_only /\ call.staged_only
    /\ result.value # {}
    /\ with_flags(FALSE, TRUE) # {}
    /\ result.value # with_flags(FALSE, TRUE)
====
